---- MODULE Spec2Model ----
(***************************************************************************)
(* Model of changelog_webhook.py: the polling loop that fetches changelog  *)
(* records, resolves the ones newer than the persisted cursor, posts them  *)
(* to the webhook and rewrites the cursor file.                            *)
(*                                                                         *)
(* Lines 282-287 of the source carry a broken indentation (the try block   *)
(* sits at the level of its `for`).  The model reads the loop as the block *)
(* structure of lines 292-302 dictates: the body of `for e in new_logs`    *)
(* is the try/except around send_to_discord followed by the cursor update  *)
(* and save_state.                                                         *)
(***************************************************************************)
EXTENDS Integers, Sequences, FiniteSets, TLC

\* ---------------------------------------------------------------- bounds
MaxId == 2
MaxTs == 2
MaxNaive == 1
MaxLen == 2
\* the second, leaner universe: longer batches of records that carry an id
\* or a createdAt, never both
LongIds == 3
LongLen == 3
\* the fourth universe: batches of up to MixedLen records, some with an id,
\* some with a createdAt only
MixedLen == 3

\* ------------------------------------------------------- record universe
\* The value of `e.get("id") or e.get("Id")`: NoId is an absent field,
\* BadId a non-numeric string, the others are numbers.
NoId == -1
BadId == -2
Ids == {NoId, BadId, 0} \cup (1..MaxId)

\* The value of `e.get("createdAt") or e.get("CreatedAt")`, a string:
\*   "none"  absent or empty,          "bad"   not an ISO date,
\*   "z"     1970-01-01T00:00:0tZ,     "naive" 1970-01-01T00:00:0t
NoTs == [k |-> "none", t |-> 0]
BadTs == [k |-> "bad", t |-> 0]
Stamps ==
    {NoTs, BadTs} \cup [k : {"z"}, t : 1..MaxTs] \cup [k : {"naive"}, t : 1..MaxNaive]

Records == [id : Ids, createdAt : Stamps]

LongRecords ==
    [id : 1..LongIds, createdAt : {NoTs}] \cup
    [id : {NoId}, createdAt : [k : {"z"}, t : 1..MaxTs]]

MixedRecords ==
    {[id |-> NoId, createdAt |-> [k |-> "z", t |-> 1]],
     [id |-> 1, createdAt |-> BadTs],
     [id |-> 1, createdAt |-> [k |-> "z", t |-> 1]],
     [id |-> MaxId, createdAt |-> NoTs]}

\* A createdAt that is no string: a JSON number other than 0 ("num").  The
\* third universe has such records next to well-formed ones.
NumTs == [k |-> "num", t |-> 0]

TypedRecords ==
    [id : {NoId} \cup (1..MaxId), createdAt : {NoTs, BadTs, NumTs, [k |-> "z", t |-> 1]}]

\* A datetime, or None, or the AttributeError of `s.strip()` (line 87, outside
\* the try) on a value that is no string.
NoneDt == [aware |-> FALSE, t |-> -1]
RaisedDt == [aware |-> FALSE, t |-> -2]

parse_iso_datetime(s) ==
    IF s.k = "none" THEN NoneDt
    ELSE IF s.k = "num" THEN RaisedDt
    ELSE IF s.k = "z" THEN [aware |-> TRUE, t |-> s.t]
    ELSE IF s.k = "naive" THEN [aware |-> FALSE, t |-> s.t]
    ELSE NoneDt

\* `if eid:` and `int(eid)` succeeding
IdTruthy(id) == id \notin {NoId, 0}
IdNumeric(id) == IdTruthy(id) /\ id # BadId
StrTruthy(s) == s.k # "none"

sort_key(e) ==
    IF IdNumeric(e.id) THEN e.id
    ELSE LET created == parse_iso_datetime(e.createdAt)
         IN IF created # NoneDt THEN created.t ELSE 0

\* sort_key raises on a record of logs: its id gives no key and its createdAt
\* is no string
SortRaises(logs) ==
    \E n \in 1..Len(logs) :
        ~IdNumeric(logs[n].id) /\ parse_iso_datetime(logs[n].createdAt) = RaisedDt

\* sorted(logs, key=sort_key): stable, ascending
RECURSIVE InsertSorted(_, _)
InsertSorted(e, s) ==
    IF s = <<>> THEN <<e>>
    ELSE IF sort_key(s[Len(s)]) <= sort_key(e) THEN Append(s, e)
    ELSE Append(InsertSorted(e, SubSeq(s, 1, Len(s) - 1)), s[Len(s)])

\* the fetch order kept: the sort left out
Sorted_FetchOrder(logs) == logs

RECURSIVE Sorted(_)
Sorted(logs) ==
    IF logs = <<>> THEN <<>>
    ELSE InsertSorted(logs[Len(logs)], Sorted(SubSeq(logs, 1, Len(logs) - 1)))

\* --------------------------------------------------------------- cursor
EmptyState == [last_id |-> NoId, last_ts |-> NoTs]
NoFile == [k |-> "absent", last_id |-> NoId, last_ts |-> NoTs]
CorruptFile == [k |-> "corrupt", last_id |-> NoId, last_ts |-> NoTs]

load_state(f) ==
    IF f.k = "ok" THEN [last_id |-> f.last_id, last_ts |-> f.last_ts]
    ELSE EmptyState

\* what save_state leaves on disk: the dump, the old file (open failed), or a
\* truncated file (open succeeded, the dump did not)
SaveOutcomes == {"ok", "unchanged", "truncated"}

save_state(st, f, outcome) ==
    IF outcome = "ok" THEN [k |-> "ok", last_id |-> st.last_id, last_ts |-> st.last_ts]
    ELSE IF outcome = "unchanged" THEN f
    ELSE CorruptFile

\* the first-run test left out: no cursor counts as empty
StateEmpty_Never(st) == FALSE

\* `not state`
StateEmpty(st) == st = EmptyState

\* int(state.get("last_id", 0))
LastIdOf(st) == IF st.last_id = NoId THEN 0 ELSE st.last_id

\* ------------------------------------------------------------- resolver
\* one iteration of the filter loop: "new", "old" or "raise" (comparing an
\* offset-naive with an offset-aware datetime is a TypeError, parsing a
\* last_ts that is no string an AttributeError)
\* the same without the test against last_id
Classify_AnyIdNew(e, last_id, last_ts) ==
    IF IdTruthy(e.id)
    THEN IF e.id # BadId THEN "new" ELSE "old"
    ELSE LET created == parse_iso_datetime(e.createdAt)
         IN IF created = RaisedDt THEN "raise"
            ELSE IF created = NoneDt THEN "old"
            ELSE IF ~StrTruthy(last_ts) THEN "new"
            ELSE LET last_ts_dt == parse_iso_datetime(last_ts)
                 IN IF last_ts_dt = RaisedDt THEN "raise"
                    ELSE IF last_ts_dt = NoneDt THEN "new"
                    ELSE IF last_ts_dt.aware # created.aware THEN "raise"
                    ELSE IF created.t > last_ts_dt.t THEN "new" ELSE "old"

Classify(e, last_id, last_ts) ==
    IF IdTruthy(e.id)
    THEN IF e.id # BadId /\ e.id > last_id THEN "new" ELSE "old"
    ELSE LET created == parse_iso_datetime(e.createdAt)
         IN IF created = RaisedDt THEN "raise"
            ELSE IF created = NoneDt THEN "old"
            ELSE IF ~StrTruthy(last_ts) THEN "new"
            ELSE LET last_ts_dt == parse_iso_datetime(last_ts)
                 IN IF last_ts_dt = RaisedDt THEN "raise"
                    ELSE IF last_ts_dt = NoneDt THEN "new"
                    ELSE IF last_ts_dt.aware # created.aware THEN "raise"
                    ELSE IF created.t > last_ts_dt.t THEN "new" ELSE "old"

ResolveRaises(logs_sorted, last_id, last_ts) ==
    \E n \in 1..Len(logs_sorted) : Classify(logs_sorted[n], last_id, last_ts) = "raise"

\* the same without the filter: every fetched record is taken as new
NewLogs_Unfiltered(logs_sorted, last_id, last_ts) == logs_sorted

RECURSIVE NewLogs(_, _, _)
NewLogs(logs_sorted, last_id, last_ts) ==
    IF logs_sorted = <<>> THEN <<>>
    ELSE LET rest == NewLogs(Tail(logs_sorted), last_id, last_ts)
         IN IF Classify(Head(logs_sorted), last_id, last_ts) = "new"
            THEN <<Head(logs_sorted)>> \o rest
            ELSE rest

\* ------------------------------------------------------------ bootstrap
RECURSIVE MaxIdIn(_, _)
MaxIdIn(logs_sorted, acc) ==
    IF logs_sorted = <<>> THEN acc
    ELSE LET e == Head(logs_sorted)
         IN MaxIdIn(Tail(logs_sorted),
                    IF IdNumeric(e.id) /\ e.id > acc THEN e.id ELSE acc)

BootstrapState(st, logs_sorted) ==
    LET ts_candidate == logs_sorted[Len(logs_sorted)].createdAt
    IN [last_id |-> MaxIdIn(logs_sorted, LastIdOf(st)),
        last_ts |-> IF StrTruthy(ts_candidate) THEN ts_candidate ELSE st.last_ts]

\* the cursor update after record e (lines 292-300)
AdvanceState(st, e) ==
    [last_id |-> IF IdNumeric(e.id) THEN e.id ELSE st.last_id,
     last_ts |-> IF StrTruthy(e.createdAt) THEN e.createdAt ELSE st.last_ts]

\* ---------------------------------------------------------------- state
VARIABLES
    cfg,          \* POST_HISTORY_ON_FIRST_RUN, API_URL, WEBHOOK_URL set, --once
    remote,       \* the records the API currently serves
    file,         \* STATE_FILE on disk
    pc,           \* where main_loop / run_once stands
    state,        \* run_once's `state` dict
    new_logs,     \* run_once's `new_logs`
    idx,          \* position of `e` in new_logs
    attempts,     \* this pass's calls of send_to_discord: the record, the outcome
    result,       \* how the last run_once ended
    bootstrapped, \* this pass took the first-run branch
    fetched,      \* this pass's records, as sorted
    savesOk,      \* every save_state of this pass wrote the file
    unchanged,    \* the API serves what the last pass fetched, and it saved all
    repeat,       \* this pass re-fetches what the previous pass fetched
    delivered,    \* served records the webhook has accepted
    bootSeen,     \* served records that the first first-run pass fetched
    booted        \* a first-run pass has happened

passVars == <<state, new_logs, idx, attempts, result, bootstrapped, fetched,
              savesOk, repeat>>
histVars == <<delivered, bootSeen, booted>>

vars == <<cfg, remote, file, pc, unchanged, passVars, histVars>>

Configs == [post_history : BOOLEAN, api_url : BOOLEAN, webhook_url : BOOLEAN,
            once : BOOLEAN]

\* the process as started: no cursor file yet, nothing fetched
Started ==
    /\ remote = {}
    /\ file = NoFile
    /\ pc = "idle"
    /\ state = EmptyState
    /\ new_logs = <<>>
    /\ idx = 0
    /\ attempts = <<>>
    /\ result = "none"
    /\ bootstrapped = FALSE
    /\ fetched = <<>>
    /\ savesOk = TRUE
    /\ unchanged = FALSE
    /\ repeat = FALSE
    /\ delivered = {}
    /\ bootSeen = {}
    /\ booted = FALSE

\* continuous mode with both endpoints configured
Init ==
    /\ cfg \in {c \in Configs : c.api_url /\ c.webhook_url /\ ~c.once}
    /\ Started

\* either mode with API_URL or the webhook URL unset: __main__ prints its
\* warnings and goes on to run_once or main_loop
InitUnset ==
    /\ cfg \in {c \in Configs : ~c.api_url \/ ~c.webhook_url}
    /\ Started

\* every order in which the API may list its records
Orders(S) ==
    {q \in [1..Cardinality(S) -> S] : \A a, b \in 1..Cardinality(S) : a # b => q[a] # q[b]}

\* -------------------------------------------------------- environment
\* the API starts to serve one more record
RemoteAddFrom(universe, limit) ==
    /\ pc = "idle"
    /\ Cardinality(remote) < limit
    /\ \E r \in universe \ remote : remote' = remote \cup {r}
    /\ unchanged' = FALSE
    /\ UNCHANGED <<cfg, file, pc, passVars, histVars>>

RemoteAdd == RemoteAddFrom(Records, MaxLen)

RemoteAddLong == RemoteAddFrom(LongRecords, LongLen)

RemoteAddTyped == RemoteAddFrom(TypedRecords, MaxLen)

RemoteAddMixed == RemoteAddFrom(MixedRecords, MixedLen)

\* the API stops serving a record; what was recorded about it is forgotten

RemoteDrop ==
    /\ pc = "idle"
    /\ \E r \in remote :
        /\ remote' = remote \ {r}
        /\ delivered' = delivered \ {r}
        /\ bootSeen' = bootSeen \ {r}
    /\ unchanged' = FALSE
    /\ UNCHANGED <<cfg, file, pc, passVars, booted>>

\* ---------------------------------------------------------- run_once
\* main_loop without its try/except: a run_once that raises ends the process
EndPass_Uncaught(res, clean) ==
    /\ pc' = IF cfg.once \/ res = "raised" THEN "exited" ELSE "sleeping"
    /\ result' = res
    /\ unchanged' = clean

\* run_once returns or raises: main_loop sleeps, --once leaves the process
EndPass(res, clean) ==
    /\ pc' = IF cfg.once THEN "exited" ELSE "sleeping"
    /\ result' = res
    /\ unchanged' = clean

\* the same without main_loop's try/except: the exception ends the process
FetchFails_Fatal ==
    /\ pc = "idle"
    /\ pc' = "exited"
    /\ result' = "raised"
    /\ unchanged' = FALSE
    /\ state' = load_state(file)
    /\ repeat' = FALSE
    /\ UNCHANGED <<cfg, remote, file, new_logs, idx, attempts, bootstrapped,
                   fetched, savesOk, histVars>>

\* fetch_changelogs raises: API_URL unset, network error, status, bad JSON
FetchFails ==
    /\ pc = "idle"
    /\ EndPass("raised", FALSE)
    /\ state' = load_state(file)
    /\ repeat' = FALSE
    /\ UNCHANGED <<cfg, remote, file, new_logs, idx, attempts, bootstrapped,
                   fetched, savesOk, histVars>>

\* lines 208-280: load, fetch, sort, filter, and the first-run branch
ResolveWith(saves) ==
    /\ pc = "idle"
    /\ cfg.api_url
    /\ \E logs \in Orders(remote), out \in saves :
        LET st == load_state(file)
            last_id == LastIdOf(st)
            last_ts == st.last_ts
            logs_sorted == Sorted(logs)
            raises == SortRaises(logs) \/ ResolveRaises(logs_sorted, last_id, last_ts)
            nl == NewLogs(logs_sorted, last_id, last_ts)
            boot == StateEmpty(st) /\ ~cfg.post_history
        IN /\ fetched' = IF SortRaises(logs) THEN logs ELSE logs_sorted
           /\ repeat' = unchanged
           /\ IF logs = <<>> \/ raises \/ nl = <<>>
              THEN /\ out = "ok"
                   /\ EndPass(IF logs # <<>> /\ raises THEN "raised" ELSE "returned", TRUE)
                   /\ state' = st
                   /\ UNCHANGED <<file, new_logs, idx, bootstrapped, savesOk,
                                  bootSeen, booted>>
              ELSE IF boot
              THEN /\ state' = BootstrapState(st, logs_sorted)
                   /\ file' = save_state(state', file, out)
                   /\ EndPass("returned", out = "ok")
                   /\ new_logs' = nl
                   /\ bootstrapped' = TRUE
                   /\ savesOk' = (out = "ok")
                   /\ booted' = TRUE
                   /\ bootSeen' = IF booted THEN bootSeen ELSE remote
                   /\ UNCHANGED idx
              ELSE /\ out = "ok"
                   /\ pc' = "publishing"
                   /\ state' = st
                   /\ new_logs' = nl
                   /\ idx' = 1
                   /\ UNCHANGED <<file, result, unchanged, bootstrapped, savesOk,
                                  bootSeen, booted>>
    /\ UNCHANGED <<cfg, remote, attempts, delivered>>

Resolve == ResolveWith(SaveOutcomes)

\* the same with a cursor file that can always be written
ResolveSaved == ResolveWith({"ok"})

\* send_to_discord(e) inside the try: 204, another status (only printed), or
\* an exception (WEBHOOK_URL unset, transport error), which the except prints
SendOutcomes == {"ok", "status", "raise"}

Publish ==
    /\ pc = "publishing"
    /\ \E out \in SendOutcomes :
        LET e == new_logs[idx]
        IN /\ cfg.webhook_url \/ out = "raise"
           /\ attempts' = Append(attempts, [e |-> e, out |-> out])
           /\ delivered' = IF out = "ok" THEN delivered \cup {e} ELSE delivered
    /\ pc' = "advancing"
    /\ UNCHANGED <<cfg, remote, file, state, new_logs, idx, result,
                   bootstrapped, fetched, savesOk, unchanged, repeat, bootSeen, booted>>

\* lines 292-302: update the cursor with e and save it, then the next e
AdvanceWith(saves) ==
    /\ pc = "advancing"
    /\ \E out \in saves :
        /\ state' = AdvanceState(state, new_logs[idx])
        /\ file' = save_state(state', file, out)
        /\ savesOk' = (savesOk /\ out = "ok")
        /\ IF idx < Len(new_logs)
           THEN /\ idx' = idx + 1
                /\ pc' = "publishing"
                /\ UNCHANGED <<result, unchanged>>
           ELSE /\ idx' = idx
                /\ EndPass("returned", savesOk')
    /\ UNCHANGED <<cfg, remote, new_logs, attempts, bootstrapped, fetched, repeat,
                   histVars>>

Advance == AdvanceWith(SaveOutcomes)

AdvanceSaved == AdvanceWith({"ok"})

\* main_loop: time.sleep(POLL_INTERVAL) returns, the next run_once starts
Wake ==
    /\ pc = "sleeping"
    /\ pc' = "idle"
    /\ state' = EmptyState
    /\ new_logs' = <<>>
    /\ idx' = 0
    /\ attempts' = <<>>
    /\ result' = "none"
    /\ bootstrapped' = FALSE
    /\ fetched' = <<>>
    /\ savesOk' = TRUE
    /\ repeat' = FALSE
    /\ UNCHANGED <<cfg, remote, file, unchanged, histVars>>

Next ==
    \/ RemoteAdd
    \/ RemoteDrop
    \/ FetchFails
    \/ Resolve
    \/ Publish
    \/ Advance
    \/ Wake

Spec == Init /\ [][Next]_vars

\* every save_state succeeds
NextSaved ==
    \/ RemoteAdd
    \/ RemoteDrop
    \/ FetchFails
    \/ ResolveSaved
    \/ Publish
    \/ AdvanceSaved
    \/ Wake

SpecSaved == Init /\ [][NextSaved]_vars

\* batches of up to LongLen records
NextLong ==
    \/ RemoteAddLong
    \/ RemoteDrop
    \/ FetchFails
    \/ Resolve
    \/ Publish
    \/ Advance
    \/ Wake

SpecLong == Init /\ [][NextLong]_vars

\* batches that may hold a createdAt that is no string
NextTyped ==
    \/ RemoteAddTyped
    \/ RemoteDrop
    \/ FetchFails
    \/ Resolve
    \/ Publish
    \/ Advance
    \/ Wake

SpecTyped == Init /\ [][NextTyped]_vars

\* batches of up to MixedLen records, every save_state succeeding
NextMixed ==
    \/ RemoteAddMixed
    \/ RemoteDrop
    \/ FetchFails
    \/ ResolveSaved
    \/ Publish
    \/ AdvanceSaved
    \/ Wake

SpecMixed == Init /\ [][NextMixed]_vars

SpecUnset == InitUnset /\ [][NextMixed]_vars

\* main_loop keeps running: time.sleep returns, and every request of a pass
\* ends (each has a timeout)
Fairness ==
    /\ WF_vars(Wake)
    /\ WF_vars(FetchFails \/ Resolve)
    /\ WF_vars(Publish)
    /\ WF_vars(Advance)

LiveSpec == Init /\ [][NextLong]_vars /\ Fairness

LiveTyped == Init /\ [][NextTyped]_vars /\ Fairness

\* ------------------------------------------------------------- claims
\* steps of run_once, as seen from outside
Posted == pc = "publishing" /\ pc' = "advancing"
Accepted == Posted /\ attempts'[Len(attempts')].out = "ok"
Saving == pc = "advancing"
LastSent == attempts[Len(attempts)]

\* C1: at-most-once delivery: with every cursor write succeeding, the webhook
\* never accepts a record that it accepted before.
C1_AtMostOnce == [][Accepted => new_logs[idx] \notin delivered]_vars

\* C2: idempotence: a pass that fetches what the previous pass fetched, after
\* that pass saved every cursor it wrote, calls send_to_discord for no record.
C2_Idempotent == repeat => attempts = <<>>

\* C3: whenever the cursor file is rewritten, its last_id is not below the
\* last_id it replaces.
C3_LastIdMonotone ==
    [][(file.k = "ok" /\ file'.k = "ok") => file'.last_id >= file.last_id]_vars

\* a pass that moved last_id up twice, the first time after a failed post
C3_Witness ==
    /\ pc = "sleeping"
    /\ Len(attempts) = 2
    /\ attempts[1].out # "ok"
    /\ attempts[1].e.id = 1
    /\ attempts[2].e.id = 2
    /\ file.k = "ok"
    /\ file.last_id = 2

\* new is a timestamp and is not earlier than old (an old value that is no
\* timestamp, or one of the other kind of datetime, does not count against new)
TsNotBefore(new, old) ==
    LET n == parse_iso_datetime(new)
        o == parse_iso_datetime(old)
    IN /\ n # NoneDt
       /\ (o = NoneDt \/ o.aware # n.aware \/ n.t >= o.t)

\* C4: whenever the cursor file's last_ts is replaced, the new value is a
\* timestamp that is not earlier than the replaced one.
C4_LastTsMonotone ==
    [][(file.k = "ok" /\ file'.k = "ok" /\ StrTruthy(file.last_ts)
            /\ file'.last_ts # file.last_ts)
        => TsNotBefore(file'.last_ts, file.last_ts)]_vars

\* C5: after a post that failed, the cursor file is not rewritten with the
\* values of the record that failed.
C5_FailedNotMarked ==
    [][(Saving /\ LastSent.out # "ok") => ~(file'.k = "ok" /\ file' # file)]_vars

\* the positions of this pass's posts
Sent == DOMAIN attempts
OkAt(n) == attempts[n].out = "ok"
LastOkAt == CHOOSE n \in Sent : OkAt(n) /\ \A m \in Sent : OkAt(m) => m <= n

\* C6: a failed post does not end the pass: every new record is posted, and
\* when a post succeeds after one that failed, the saved cursor carries the
\* id and createdAt of the last record whose post succeeded.
C6_PartialFailure ==
    (pc = "sleeping" /\ result = "returned" /\ ~bootstrapped /\ new_logs # <<>>) =>
        /\ Len(attempts) = Len(new_logs)
        /\ (savesOk /\ \E m, n \in Sent : m < n /\ ~OkAt(m) /\ OkAt(n)) =>
            LET e == attempts[LastOkAt].e
            IN /\ IdNumeric(e.id) => file.last_id = e.id
               /\ StrTruthy(e.createdAt) => file.last_ts = e.createdAt

\* the numeric ids and the timestamps of the served records
IdsOf(S) == {r.id : r \in {x \in S : IdNumeric(x.id)}}
TimesOf(S) ==
    {parse_iso_datetime(r.createdAt).t :
        r \in {x \in S : parse_iso_datetime(x.createdAt) # NoneDt}}
MaxOf(S) == CHOOSE x \in S : \A y \in S : y <= x

\* C7: a first-run pass posts nothing and saves a cursor with the largest id
\* and the latest timestamp of the fetched records.
C7_Bootstrap ==
    (pc = "sleeping" /\ bootstrapped /\ savesOk) =>
        /\ attempts = <<>>
        /\ file.k = "ok"
        /\ IdsOf(remote) # {} => file.last_id = MaxOf(IdsOf(remote))
        /\ TimesOf(remote) # {} =>
            /\ parse_iso_datetime(file.last_ts) # NoneDt
            /\ parse_iso_datetime(file.last_ts).t = MaxOf(TimesOf(remote))

\* C8: a record that the first first-run pass fetched is never accepted by the
\* webhook afterwards.
C8_NoFlood == [][Accepted => new_logs[idx] \notin bootSeen]_vars

FetchFailed == pc = "sleeping" /\ result = "raised" /\ fetched = <<>>

\* C10: a pass whose fetch fails posts nothing and leaves the cursor file as
\* it is; main_loop sleeps, comes back to idle and starts another pass.
C10_FetchFailureSkips ==
    /\ [][(pc = "idle" /\ result' = "raised" /\ fetched' = <<>>)
            => (file' = file /\ attempts' = <<>> /\ pc' = "sleeping")]_vars
    /\ FetchFailed ~> (pc = "idle")
    /\ (pc = "idle") ~> (pc # "idle")

\* a fetch failed while a cursor is on disk
C10_Witness == FetchFailed /\ file.k = "ok" /\ file.last_id = 2

\* the cursor that this pass loaded, once its filter loop has run and before
\* any post (a first-run pass loaded the empty cursor)
Filtered == fetched # <<>> /\ attempts = <<>>
Loaded == IF bootstrapped THEN EmptyState ELSE state
Selected(e) == \E n \in DOMAIN new_logs : new_logs[n] = e

\* the filtering rule as the specification words it: a numeric id (0 too)
\* decides alone; otherwise a parseable createdAt against last_ts
RuleNew(e, st) ==
    IF e.id \in 0..MaxId THEN e.id > LastIdOf(st)
    ELSE LET created == parse_iso_datetime(e.createdAt)
             last_ts_dt == parse_iso_datetime(st.last_ts)
         IN /\ created # NoneDt
            /\ \/ ~StrTruthy(st.last_ts)
               \/ last_ts_dt # NoneDt /\ created.t > last_ts_dt.t

\* C11: the filter loop selects exactly the fetched records that the rule
\* calls new: with a numeric id (0 included) iff id > last_id, else with a
\* parseable createdAt iff last_ts is unset or createdAt is later, else never.
C11_NoveltyFilter ==
    Filtered => \A n \in DOMAIN fetched : Selected(fetched[n]) <=> RuleNew(fetched[n], Loaded)

\* a record with no id and a createdAt that is absent or cannot be parsed
Malformed(e) == e.id = NoId /\ parse_iso_datetime(e.createdAt) \in {NoneDt, RaisedDt}
NotMalformed(e) == ~Malformed(e)
WellFormed == SelectSeq(fetched, NotMalformed)

\* C12: a record with no id and no parseable createdAt is never selected and
\* never posted, and the pass resolves as it would without it: it raises only
\* if the other records make it raise, and selects what it would select of
\* the other records alone.
C12_MalformedIgnored ==
    /\ \A n \in DOMAIN new_logs : ~Malformed(new_logs[n])
    /\ \A n \in DOMAIN attempts : ~Malformed(attempts[n].e)
    /\ Filtered =>
        LET last_id == LastIdOf(Loaded)
            last_ts == Loaded.last_ts
            alone == SortRaises(WellFormed) \/ ResolveRaises(Sorted(WellFormed), last_id, last_ts)
        IN /\ (result = "raised") <=> alone
           /\ ~alone => new_logs = NewLogs(Sorted(WellFormed), last_id, last_ts)

\* the posts of this pass that the webhook accepted and that the cursor on
\* disk does not cover: a pass that read the file now would select the record
OnDisk == load_state(file)
Uncovered ==
    {n \in Sent : OkAt(n) /\ Classify(attempts[n].e, LastIdOf(OnDisk), OnDisk.last_ts) = "new"}

\* C13: wherever the process stops inside a pass, at most one record that
\* this pass delivered is not covered by the cursor file.
C13_CrashWindow ==
    (pc \in {"publishing", "advancing"}) => Cardinality(Uncovered) <= 1

\* a pass that has ended, by a return or by an exception
PassOver == pc = "sleeping" /\ result \in {"returned", "raised"}

\* C14: in continuous mode no pass ends the process; after a pass has ended,
\* however it ended, main_loop comes back to idle and runs the next pass to
\* its end;
\* and it comes back to idle only from the sleep that follows an ended pass,
\* never from the middle of one.
C14_LoopSurvives ==
    /\ [](pc # "exited")
    /\ PassOver ~> (pc = "idle")
    /\ (pc = "idle") ~> PassOver
    /\ [][(pc # "idle" /\ pc' = "idle") => PassOver]_vars

\* a pass that raised while resolving what it fetched, over a cursor file that
\* a failed write had left unreadable
C14_Witness ==
    /\ PassOver
    /\ result = "raised"
    /\ fetched # <<>>
    /\ file.k = "corrupt"

\* a save_state after a post that did not leave the dump of `state` on disk
Written(st) == [k |-> "ok", last_id |-> st.last_id, last_ts |-> st.last_ts]
SaveFailed == Saving /\ file' # Written(state')

\* C15: a save_state that fails leaves the cursor file as it was, and the
\* pass goes on: it ends having posted every record it selected.
C15_WriteFailure ==
    /\ [][SaveFailed => file' = file]_vars
    /\ []((PassOver /\ result = "returned" /\ ~bootstrapped /\ ~savesOk)
            => Len(attempts) = Len(new_logs))

\* C16: with API_URL or the webhook URL unset, continuous mode runs no pass,
\* and the pass of --once ends with an exception, with no post accepted and
\* the cursor file as it was at the start (there was none).
C16_MissingConfig ==
    (~cfg.api_url \/ ~cfg.webhook_url) =>
        /\ ~cfg.once => (pc = "idle" /\ result = "none")
        /\ (cfg.once /\ pc = "exited") =>
            /\ result = "raised"
            /\ \A n \in Sent : ~OkAt(n)
            /\ file = NoFile

\* run_once from its start to a return with nothing selected
NothingNew == pc = "idle" /\ result' = "returned" /\ new_logs' = <<>>
\* run_once over an empty cursor with the first-run branch enabled, fetching
\* records of which none has an id or a parseable createdAt
OnlyMalformed ==
    /\ pc = "idle"
    /\ StateEmpty(load_state(file))
    /\ ~cfg.post_history
    /\ fetched' # <<>>
    /\ \A n \in DOMAIN fetched' : Malformed(fetched'[n])

\* C17: a pass that selects no record calls neither send_to_discord nor
\* save_state; over an empty cursor a batch of records without id and
\* without parseable createdAt is such a pass, so the cursor is still empty
\* and the first-run branch still ahead when the next pass starts.
C17_NothingNewNoWrite ==
    /\ [][NothingNew => (file' = file /\ attempts' = <<>> /\ pc' = "sleeping")]_vars
    /\ [][OnlyMalformed =>
            /\ file' = file
            /\ new_logs' = <<>>
            /\ attempts' = <<>>
            /\ ~bootstrapped'
            /\ StateEmpty(load_state(file'))]_vars

\* a pass over no cursor file that fetched two records, neither with an id or
\* a parseable createdAt, and returned
C17_Witness ==
    /\ PassOver
    /\ result = "returned"
    /\ ~cfg.post_history
    /\ file = NoFile
    /\ Len(fetched) = 2
    /\ \A n \in DOMAIN fetched : Malformed(fetched[n])

\* run_once from its start to the point where it has selected records
SelectsNew == pc = "idle" /\ new_logs' # <<>>

\* C18: the first-run branch is taken only over an empty loaded cursor (and
\* with POST_HISTORY_ON_FIRST_RUN off); a pass that loads the cursor an
\* earlier pass saved goes on to post, and ends having called send_to_discord
\* for each record it selected, in order; a pass that finds the cursor file
\* unreadable and selects records takes the first-run branch again and posts
\* none of them.
C18_BootstrapOnlyWhenEmpty ==
    /\ [][(pc = "idle" /\ bootstrapped')
            => (StateEmpty(load_state(file)) /\ ~cfg.post_history)]_vars
    /\ [][(SelectsNew /\ file.k = "ok")
            => (pc' = "publishing" /\ ~bootstrapped' /\ file' = file)]_vars
    /\ []((PassOver /\ result = "returned" /\ ~bootstrapped)
            => /\ Len(attempts) = Len(new_logs)
               /\ \A n \in DOMAIN new_logs : attempts[n].e = new_logs[n])
    /\ [][(SelectsNew /\ file.k = "corrupt" /\ ~cfg.post_history)
            => (bootstrapped' /\ attempts' = <<>> /\ pc' = "sleeping")]_vars

\* a first-run pass that came after a pass that posted: the cursor file of
\* that pass had become unreadable
C18_Witness ==
    /\ PassOver
    /\ bootstrapped
    /\ delivered # {}
    /\ new_logs # <<>>

====
